---- MODULE Spec2Model ----
(***************************************************************************)
(* The FargateService component of pgweb-pulumi as a state machine.        *)
(*                                                                         *)
(* A Pulumi program constructs one FargateService(name, args).  The        *)
(* constructor resolves the defaults, validates the resolved arguments and *)
(* registers the derived resources (roles, policies, security group and    *)
(* rules, target group, listener rule, task definition, service).  The     *)
(* provisioning engine afterwards creates the registered resources in any  *)
(* order that respects the registered dependencies.  SpecBuilders takes    *)
(* the sections of the constructor body one at a time, in any order.       *)
(*                                                                         *)
(* The argument shape is the one declared in src/components/types.ts       *)
(* (albConfig, containers, cpu, memory, namespace, ...).  The constructor  *)
(* body under src/components/fargate-service.ts is the single-container    *)
(* revision: where it has the logic (defaults, prefix, resource names, the *)
(* ALB block, dependsOn) the definitions follow it line by line, reading   *)
(* its `albSecurityGroupId` as albConfig.securityGroupId and its `port` as *)
(* albConfig.portMapping.containerPort.  validateArgs and what reads the   *)
(* fields that revision does not have (the containers and their            *)
(* logGroupName, ruleActions, rulePriority) are not in it; they follow the *)
(* specification and are marked so at their definitions.  The log group    *)
(* that revision creates from its logRetention argument has no place in    *)
(* the declared arguments, whose containers name existing log groups.      *)
(*                                                                         *)
(* An optional value (`x?: T`) is a sequence of length at most one:        *)
(* <<>> is undefined, <<v>> is the value v.                                *)
(***************************************************************************)
EXTENDS Integers, Sequences, FiniteSets, TLC

VARIABLES
    name,            \* first constructor argument, the component's name
    stack,           \* pulumi.getStack()
    region,          \* aws.getRegion(), the region of the deployment
    args,            \* the caller's FargateServiceArgs
    pc,              \* "new" before the constructor ran, then "done" or "error"
    errors,          \* the violation messages of the aggregate error
    resources,       \* the registered resource descriptions
    service,         \* this.service: <<>> or <<the service's properties>>
    taskDefinition,  \* this.taskDefinition: <<>> or <<its properties>>
    roles,           \* the IAM roles with their trust policy and managed policies
    policies,        \* the inline policies attached to the roles
    securityGroup,   \* this.securityGroup: <<>> or <<the group's properties>>
    securityGroupRules,  \* the rules of the service's security group
    outputs,         \* the members the component exposes, with the resource of each
    built,           \* the sections of the constructor body that have run
    compiled,        \* the container definitions compiled for the task definition
    lb,              \* <<>> or <<the target group and the listener rule>>
    created          \* names of the resources the engine has created

graph ==
    <<resources, service, taskDefinition, roles, policies, securityGroup,
      securityGroupRules, lb, outputs, built, compiled>>

vars == <<name, stack, region, args, pc, errors, graph, created>>

-----------------------------------------------------------------------------
(* Bounds *)

MaxContainers == 2

-----------------------------------------------------------------------------
(* Optional values *)

Undefined == <<>>

Some(v) == <<v>>

IsDefined(o) == o # <<>>

\* `o ?? d`
OrElse(o, d) == IF o # <<>> THEN o[1] ELSE d

Range(s) == {s[i] : i \in 1..Len(s)}

RECURSIVE SumSeq(_)
SumSeq(s) == IF s = <<>> THEN 0 ELSE Head(s) + SumSeq(Tail(s))

-----------------------------------------------------------------------------
(* src/components/constants.ts *)

\* 0.25 vCPU - 0.5 GB, 1 GB, 2 GB
combinationsQuarterVcpu == { "256x512", "256x1024", "256x2048" }

\* 0.5 vCPU - 1 GB, 2 GB, 3 GB, 4 GB
combinationsHalfVcpu == { "512x1024", "512x2048", "512x3072", "512x4096" }

\* 1 vCPU - 2 GB, 3 GB, 4 GB, 5 GB, 6 GB, 7 GB, 8 GB
combinationsOneVcpu ==
    { "1024x2048", "1024x3072", "1024x4096", "1024x5120", "1024x6144",
      "1024x7168", "1024x8192" }

\* 2 vCPU - Between 4 GB and 16 GB in 1-GB increments
combinationsTwoVcpu ==
    { "2048x4096", "2048x5120", "2048x6144", "2048x7168", "2048x8192",
      "2048x9216", "2048x10240", "2048x11264", "2048x12288", "2048x13312",
      "2048x14336", "2048x15360", "2048x16384" }

\* 4 vCPU - Between 8 GB and 30 GB in 1-GB increments
combinationsFourVcpu ==
    { "4096x8192", "4096x9216", "4096x10240", "4096x11264", "4096x12288",
      "4096x13312", "4096x14336", "4096x15360", "4096x16384", "4096x17408",
      "4096x18432", "4096x19456", "4096x20480", "4096x21504", "4096x22528",
      "4096x23552", "4096x24576", "4096x25600", "4096x26624", "4096x27648",
      "4096x28672", "4096x29696", "4096x30720" }

\* the table with its last entry lost
validCpuMemoryCombinationsShort ==
    combinationsQuarterVcpu \cup combinationsHalfVcpu \cup combinationsOneVcpu
        \cup combinationsTwoVcpu \cup (combinationsFourVcpu \ {"4096x30720"})

validCpuMemoryCombinations ==
    combinationsQuarterVcpu \cup combinationsHalfVcpu \cup combinationsOneVcpu
        \cup combinationsTwoVcpu \cup combinationsFourVcpu

-----------------------------------------------------------------------------
(* Defaults and the resolved arguments *)

\* const defaults = { cpu: 256, logRetention: 14, memory: 512 }
defaults == [cpu |-> 256, logRetention |-> 14, memory |-> 512]

\* const prefix = namespace ?? `${name}-${pulumi.getStack()}`
prefix(n, st, a) == OrElse(a.namespace, n \o "-" \o st)

\* { ...args, ...defaults }: the defaults written over what the caller gave
WithDefaultsOverArgs(n, st, a) ==
    [a EXCEPT !.cpu = Some(defaults.cpu),
              !.memory = Some(defaults.memory),
              !.namespace = Some(prefix(n, st, a))]

\* the length rule reading the namespace as the caller gave it
WithDefaultsRawNamespace(n, st, a) ==
    [a EXCEPT !.cpu = Some(OrElse(a.cpu, defaults.cpu)),
              !.memory = Some(OrElse(a.memory, defaults.memory)),
              !.namespace = Some(OrElse(a.namespace, ""))]

\* { ...defaults, ...args } with the namespace resolved to the prefix:
\* the FargateServiceArgsWithDefaults of types.ts
WithDefaults(n, st, a) ==
    [a EXCEPT !.cpu = Some(OrElse(a.cpu, defaults.cpu)),
              !.memory = Some(OrElse(a.memory, defaults.memory)),
              !.namespace = Some(prefix(n, st, a))]

-----------------------------------------------------------------------------
(* Argument validation.                                                    *)
(*                                                                         *)
(* validateArgs is not part of the constructor revision under src/; only   *)
(* what it reads is: the table of constants.ts, the argument declarations  *)
(* of types.ts and the callers in index.ts.  The rules below follow the    *)
(* specification (sections 3, 4.1 and 7).  A violation message is a record *)
(* naming the broken rule and the values the message cites.                *)

MaxNamespaceLength == 22

MinRulePriority == 1

MaxRulePriority == 50000

Message(rule, nums, names) == [rule |-> rule, nums |-> nums, names |-> names]

\* `${cpu}x${memory}`
cpuMemoryKey(cpu, memory) == ToString(cpu) \o "x" \o ToString(memory)

\* validCpuMemoryCombinations.includes(`${cpu}x${memory}`)
cpuMemoryErrors(r) ==
    IF cpuMemoryKey(r.cpu[1], r.memory[1]) \in validCpuMemoryCombinations
    THEN <<>>
    ELSE <<Message("cpuMemory", <<r.cpu[1], r.memory[1]>>, <<>>)>>

\* the cpu values of the containers, a container without cpu counting as 0
containerCpus(cs) == [i \in 1..Len(cs) |-> OrElse(cs[i].cpu, 0)]

containerMemories(cs) == [i \in 1..Len(cs) |-> OrElse(cs[i].memory, 0)]

totalCpu(r) == SumSeq(containerCpus(r.containers))

totalMemory(r) == SumSeq(containerMemories(r.containers))

\* the sum compared with >= instead of >
containerCpuErrorsAtLimit(r) ==
    IF totalCpu(r) >= r.cpu[1]
    THEN <<Message("containerCpu", <<totalCpu(r), r.cpu[1]>>, <<>>)>>
    ELSE <<>>

containerCpuErrors(r) ==
    IF totalCpu(r) > r.cpu[1]
    THEN <<Message("containerCpu", <<totalCpu(r), r.cpu[1]>>, <<>>)>>
    ELSE <<>>

\* the memory sum compared with the cpu limit
containerMemoryErrorsCpuLimit(r) ==
    IF totalMemory(r) > r.cpu[1]
    THEN <<Message("containerMemory", <<totalMemory(r), r.cpu[1]>>, <<>>)>>
    ELSE <<>>

containerMemoryErrors(r) ==
    IF totalMemory(r) > r.memory[1]
    THEN <<Message("containerMemory", <<totalMemory(r), r.memory[1]>>, <<>>)>>
    ELSE <<>>

namespaceErrors(r) ==
    IF Len(r.namespace[1]) > MaxNamespaceLength
    THEN <<Message("namespace", <<Len(r.namespace[1])>>, <<r.namespace[1]>>)>>
    ELSE <<>>

\* the range read as exclusive of its two ends
rulePriorityErrorsExclusive(r) ==
    IF /\ IsDefined(r.albConfig)
       /\ IsDefined(r.albConfig[1].rulePriority)
       /\ \/ r.albConfig[1].rulePriority[1] <= MinRulePriority
          \/ r.albConfig[1].rulePriority[1] >= MaxRulePriority
    THEN <<Message("rulePriority", <<r.albConfig[1].rulePriority[1]>>, <<>>)>>
    ELSE <<>>

rulePriorityErrors(r) ==
    IF /\ IsDefined(r.albConfig)
       /\ IsDefined(r.albConfig[1].rulePriority)
       /\ \/ r.albConfig[1].rulePriority[1] < MinRulePriority
          \/ r.albConfig[1].rulePriority[1] > MaxRulePriority
    THEN <<Message("rulePriority", <<r.albConfig[1].rulePriority[1]>>, <<>>)>>
    ELSE <<>>

containerNames(cs) == [i \in 1..Len(cs) |-> cs[i].name]

portMappingErrors(r) ==
    IF /\ IsDefined(r.albConfig)
       /\ r.albConfig[1].portMapping.containerName \notin Range(containerNames(r.containers))
    THEN <<Message("portMapping", <<>>, <<r.albConfig[1].portMapping.containerName>>)>>
    ELSE <<>>

\* one message for every name that a second container takes again
RECURSIVE duplicateNameErrorsFrom(_, _)
duplicateNameErrorsFrom(cs, i) ==
    IF i > Len(cs) THEN <<>>
    ELSE (IF Cardinality({j \in 1..(i - 1) : cs[j].name = cs[i].name}) = 1
          THEN <<Message("duplicateName", <<>>, <<cs[i].name>>)>>
          ELSE <<>>) \o duplicateNameErrorsFrom(cs, i + 1)

\* no rule about container names
duplicateNameErrorsNone(r) == <<>>

duplicateNameErrors(r) == duplicateNameErrorsFrom(r.containers, 1)

\* validation that stops at the first rule it finds broken
FirstNonEmpty(lists) ==
    IF \E i \in 1..Len(lists) : lists[i] # <<>>
    THEN lists[CHOOSE i \in 1..Len(lists) :
                  lists[i] # <<>> /\ \A j \in 1..(i - 1) : lists[j] = <<>>]
    ELSE <<>>

validateArgsFirstOnly(r) ==
    FirstNonEmpty(<<cpuMemoryErrors(r), containerCpuErrors(r), containerMemoryErrors(r),
                    namespaceErrors(r), rulePriorityErrors(r), portMappingErrors(r),
                    duplicateNameErrors(r)>>)

\* every rule is evaluated and its violations are appended to one list
validateArgs(r) ==
    cpuMemoryErrors(r) \o containerCpuErrors(r) \o containerMemoryErrors(r)
        \o namespaceErrors(r) \o rulePriorityErrors(r) \o portMappingErrors(r)
        \o duplicateNameErrors(r)

-----------------------------------------------------------------------------
(* The resources the constructor registers.                                *)
(*                                                                         *)
(* A resource description is a record: its logical name, its type, its     *)
(* parent, the resources named in its dependsOn option and the resources   *)
(* whose outputs its properties read.                                      *)

Resource(n, type, parent, dependsOn, refs) ==
    [name |-> n, type |-> type, parent |-> parent, dependsOn |-> dependsOn, refs |-> refs]

executionRoleName(p) == p \o "-execution-role"

taskRoleName(p) == p \o "-task-role"

taskRolePolicyName(p) == p \o "-role-policy"

securityGroupName(p) == p \o "-service-sg"

targetGroupName(p) == p \o "-tg"

listenerRuleName(p) == p \o "-listener-rule"

taskDefinitionName(p) == p \o "-task-definition"

serviceName(p) == p \o "-service"

\* the secrets of all containers, in container order
RECURSIVE allSecrets(_)
allSecrets(cs) == IF cs = <<>> THEN <<>> ELSE Head(cs).secrets \o allSecrets(Tail(cs))

IsSecretsManager(s) == s.source = "secrets-manager"

IsParameterStore(s) == s.source = "parameter-store"

\* secrets.filter((s) => s.source === 'secrets-manager')
smSecrets(a) == SelectSeq(allSecrets(a.containers), IsSecretsManager)

\* secrets.filter((s) => s.source === 'parameter-store')
psSecrets(a) == SelectSeq(allSecrets(a.containers), IsParameterStore)

\* the containers that declare repository credentials
HasRepositoryCredentials(a) ==
    \E i \in 1..Len(a.containers) : IsDefined(a.containers[i].repositoryCredentials)

\* if (albSecurityGroupId): the ALB block runs when the ALB configuration,
\* whose securityGroupId is a required field, is given
HasAlb(a) == IsDefined(a.albConfig)

\* let listenerRule: aws.lb.ListenerRule | undefined, assigned in the ALB block
listenerRule(p, a) == IF HasAlb(a) THEN Some(listenerRuleName(p)) ELSE Undefined

\* the service without its dependsOn option
serviceDependsOnNothing(p, a) == {}

\* dependsOn: listenerRule
serviceDependsOn(p, a) == Range(listenerRule(p, a))

-----------------------------------------------------------------------------
(* Roles and policies *)

\* assumeRolePolicy of the execution role
executionRoleAssumeRolePolicy ==
    [Version |-> "2012-10-17",
     Statement |-> <<[Effect |-> "Allow",
                      Principal |-> [Service |-> "ecs-tasks.amazonaws.com"],
                      Action |-> "sts:AssumeRole"]>>]

\* assumeRolePolicy of the task role
taskRoleAssumeRolePolicy ==
    [Version |-> "2012-10-17",
     Statement |-> <<[Effect |-> "Allow",
                      Principal |-> [Service |-> "ecs-tasks.amazonaws.com"],
                      Action |-> "sts:AssumeRole"]>>]

\* policyArn of 'basic-ecs-policy'
executionPolicyBasic == "arn:aws:iam::aws:policy/service-role/AmazonECSTaskExecutionRolePolicy"

Role(n, assumeRolePolicy, managed) ==
    [name |-> n, assumeRolePolicy |-> assumeRolePolicy, managedPolicyArns |-> managed]

\* a policy document of one Allow statement; Action and Resource are lists,
\* a single string of the source being the list of that one string
PolicyDocument(actions, arns) ==
    [Version |-> "2012-10-17",
     Statement |-> <<[Effect |-> "Allow", Action |-> actions, Resource |-> arns]>>]

RolePolicy(n, role, policy) == [name |-> n, role |-> role, policy |-> policy]

\* the list passed on without the Set
uniqueArnsKeepsAll(arns) == arns

\* [...new Set(arns)]: the first occurrence of every value, in order
RECURSIVE uniqueArns(_)
uniqueArns(arns) ==
    IF arns = <<>> THEN <<>>
    ELSE LET init == uniqueArns(SubSeq(arns, 1, Len(arns) - 1))
             last == arns[Len(arns)]
         IN  IF last \in Range(init) THEN init ELSE Append(init, last)

\* .map((s) => s.valueFromArn)
valueFromArns(secrets) == [i \in 1..Len(secrets) |-> secrets[i].valueFromArn]

secretsManagerPolicy(p, a) ==
    IF Len(smSecrets(a)) > 0
    THEN {RolePolicy("secrets-manager-policy", executionRoleName(p),
                     PolicyDocument(<<"secretsmanager:GetSecretValue">>,
                                    uniqueArns(valueFromArns(smSecrets(a)))))}
    ELSE {}

parameterStorePolicy(p, a) ==
    IF Len(psSecrets(a)) > 0
    THEN {RolePolicy("parameter-store-policy", executionRoleName(p),
                     PolicyDocument(<<"ssm:GetParameter*">>, valueFromArns(psSecrets(a))))}
    ELSE {}

\* the repository credentials the containers declare, in container order
RECURSIVE repositoryCredentialsArns(_)
repositoryCredentialsArns(cs) ==
    IF cs = <<>> THEN <<>>
    ELSE Head(cs).repositoryCredentials \o repositoryCredentialsArns(Tail(cs))

\* one entry per declaring container, repeated ARNs kept
repositorySecretsPolicyPerContainer(p, a) ==
    IF HasRepositoryCredentials(a)
    THEN {RolePolicy("container-repo-creds-policy", executionRoleName(p),
                     PolicyDocument(<<"secretsmanager:GetSecretValue">>,
                                    repositoryCredentialsArns(a.containers)))}
    ELSE {}

\* the statement over the declared credentials, each ARN once
repositorySecretsPolicy(p, a) ==
    IF HasRepositoryCredentials(a)
    THEN {RolePolicy("container-repo-creds-policy", executionRoleName(p),
                     PolicyDocument(<<"secretsmanager:GetSecretValue">>,
                                    uniqueArns(repositoryCredentialsArns(a.containers))))}
    ELSE {}

\* the log groups the containers name, each once, in container order
RECURSIVE logGroupNames(_)
logGroupNames(cs) ==
    IF cs = <<>> THEN <<>> ELSE Head(cs).logGroupName \o logGroupNames(Tail(cs))

\* the resource of the log streams of a log group, `${logGroup.arn}:*`
logGroupStreamsArn(g) == "arn:aws:logs:log-group:" \o g \o ":*"

\* the statement attached to every execution role, over all log groups
executionPolicyLogsWildcard(p, a) ==
    {RolePolicy("logs-policy", executionRoleName(p),
                PolicyDocument(<<"logs:CreateLogStream", "logs:PutLogEvents">>,
                               <<"arn:aws:logs:*">>))}

executionPolicyLogs(p, a) ==
    IF Len(logGroupNames(a.containers)) > 0
    THEN {RolePolicy("logs-policy", executionRoleName(p),
                     PolicyDocument(<<"logs:CreateLogStream", "logs:PutLogEvents">>,
                                    [i \in 1..Len(uniqueArns(logGroupNames(a.containers))) |->
                                        logGroupStreamsArn(uniqueArns(logGroupNames(a.containers))[i])]))}
    ELSE {}

\* the supplied document attached with the resources of its statement
\* deduplicated
taskRolePolicyNormalised(p, a) ==
    IF IsDefined(a.taskPolicy)
    THEN {RolePolicy(taskRolePolicyName(p), taskRoleName(p),
                     [a.taskPolicy[1] EXCEPT
                         !.Statement[1].Resource = uniqueArns(a.taskPolicy[1].Statement[1].Resource)])}
    ELSE {}

taskRolePolicy(p, a) ==
    IF IsDefined(a.taskPolicy)
    THEN {RolePolicy(taskRolePolicyName(p), taskRoleName(p), a.taskPolicy[1])}
    ELSE {}

\* the inline policies, those of the execution role and that of the task role
inlinePolicies(p, a) ==
    executionPolicyLogs(p, a) \cup secretsManagerPolicy(p, a) \cup parameterStorePolicy(p, a)
        \cup repositorySecretsPolicy(p, a) \cup taskRolePolicy(p, a)

iamRoles(p, a) ==
    { Role(executionRoleName(p), executionRoleAssumeRolePolicy, {executionPolicyBasic}),
      Role(taskRoleName(p), taskRoleAssumeRolePolicy, {}) }

identityResources(n, p, a) ==
    { Resource(executionRoleName(p), "aws:iam:Role", n, {}, {}),
      Resource("basic-ecs-policy", "aws:iam:RolePolicyAttachment",
               executionRoleName(p), {}, {executionRoleName(p)}),
      Resource(taskRoleName(p), "aws:iam:Role", n, {}, {}) }
    \cup { Resource(pol.name, "aws:iam:RolePolicy", pol.role, {}, {pol.role}) :
             pol \in inlinePolicies(p, a) }

-----------------------------------------------------------------------------
(* Security group, load balancer, task definition and service *)

SecurityGroupRule(n, type, sg, protocol, fromPort, toPort, cidrBlocks, source) ==
    [name |-> n, type |-> type, securityGroupId |-> sg, protocol |-> protocol,
     fromPort |-> fromPort, toPort |-> toPort, cidrBlocks |-> cidrBlocks,
     sourceSecurityGroupId |-> source]

egressRule(p) ==
    SecurityGroupRule("egress-rule", "egress", securityGroupName(p), "-1", 0, 0,
                      <<"0.0.0.0/0">>, Undefined)

\* the rule opened to every address instead of the load balancer's group
ingressFromAlbAnywhere(p, a) ==
    SecurityGroupRule("ingress-from-alb-rule", "ingress", securityGroupName(p), "TCP",
                      a.albConfig[1].portMapping.containerPort,
                      a.albConfig[1].portMapping.containerPort,
                      <<"0.0.0.0/0">>, Undefined)

ingressFromAlb(p, a) ==
    SecurityGroupRule("ingress-from-alb-rule", "ingress", securityGroupName(p), "TCP",
                      a.albConfig[1].portMapping.containerPort,
                      a.albConfig[1].portMapping.containerPort,
                      <<>>, Some(a.albConfig[1].securityGroupId))

\* the egress rule only on a group that takes no traffic from a load balancer
groupRulesOneOfTwo(p, a) == IF HasAlb(a) THEN {ingressFromAlb(p, a)} ELSE {egressRule(p)}

groupRules(p, a) == {egressRule(p)} \cup (IF HasAlb(a) THEN {ingressFromAlb(p, a)} ELSE {})

securityGroupProps(p, a) ==
    [name |-> securityGroupName(p), vpcId |-> a.vpcId,
     description |-> "Controls access to the " \o p \o " service"]

\* the target group on the HTTP port whatever the container port
targetGroupOnPort80(p, a) ==
    [name |-> targetGroupName(p), vpcId |-> a.vpcId, port |-> 80,
     targetType |-> "ip", protocol |-> "HTTP", deregistrationDelay |-> 10, slowStart |-> 30]

targetGroup(p, a) ==
    [name |-> targetGroupName(p), vpcId |-> a.vpcId,
     port |-> a.albConfig[1].portMapping.containerPort,
     targetType |-> "ip", protocol |-> "HTTP", deregistrationDelay |-> 10, slowStart |-> 30]

\* the forward action first, the actions given in ruleActions after it
listenerRuleActionsForwardFirst(p, a) ==
    [i \in 1..(Len(a.albConfig[1].ruleActions) + 1) |->
        IF i = 1
        THEN [type |-> "forward", authenticateOidc |-> Undefined, order |-> i,
              targetGroupArn |-> Some(targetGroupName(p))]
        ELSE [type |-> a.albConfig[1].ruleActions[i - 1].type,
              authenticateOidc |-> a.albConfig[1].ruleActions[i - 1].authenticateOidc,
              order |-> i, targetGroupArn |-> Undefined]]

\* the actions given in ruleActions, numbered from 1, then the forward action
listenerRuleActions(p, a) ==
    [i \in 1..(Len(a.albConfig[1].ruleActions) + 1) |->
        IF i <= Len(a.albConfig[1].ruleActions)
        THEN [type |-> a.albConfig[1].ruleActions[i].type,
              authenticateOidc |-> a.albConfig[1].ruleActions[i].authenticateOidc,
              order |-> i, targetGroupArn |-> Undefined]
        ELSE [type |-> "forward", authenticateOidc |-> Undefined, order |-> i,
              targetGroupArn |-> Some(targetGroupName(p))]]

\* the rule given the first priority when the arguments give none
listenerRulePropsFirstPriority(p, a) ==
    [name |-> listenerRuleName(p), listenerArn |-> a.albConfig[1].listenerArn,
     conditions |-> <<"/*">>, priority |-> Some(OrElse(a.albConfig[1].rulePriority, 1)),
     actions |-> listenerRuleActions(p, a)]

listenerRuleProps(p, a) ==
    [name |-> listenerRuleName(p), listenerArn |-> a.albConfig[1].listenerArn,
     conditions |-> <<"/*">>, priority |-> a.albConfig[1].rulePriority,
     actions |-> listenerRuleActions(p, a)]

albArtifacts(p, a) ==
    IF HasAlb(a)
    THEN Some([targetGroup |-> targetGroup(p, a), listenerRule |-> listenerRuleProps(p, a)])
    ELSE Undefined

networkResources(n, p, a) ==
    { Resource(securityGroupName(p), "aws:ec2:SecurityGroup", n, {}, {}),
      Resource("egress-rule", "aws:ec2:SecurityGroupRule",
               securityGroupName(p), {}, {securityGroupName(p)}) }

\* the ingress rule, target group and listener rule registered for every service
albResourcesAlways(n, p, a) ==
    { Resource("ingress-from-alb-rule", "aws:ec2:SecurityGroupRule",
               securityGroupName(p), {}, {securityGroupName(p)}),
      Resource(targetGroupName(p), "aws:lb:TargetGroup", n, {}, {}),
      Resource(listenerRuleName(p), "aws:lb:ListenerRule", n, {}, {targetGroupName(p)}) }

albResources(n, p, a) ==
    IF HasAlb(a)
    THEN { Resource("ingress-from-alb-rule", "aws:ec2:SecurityGroupRule",
                    securityGroupName(p), {}, {securityGroupName(p)}),
           Resource(targetGroupName(p), "aws:lb:TargetGroup", n, {}, {}),
           Resource(listenerRuleName(p), "aws:lb:ListenerRule", n, {}, {targetGroupName(p)}) }
    ELSE {}

\* the binding naming the fixed container name of the single-container revision
albBindingFixedName(p, a) ==
    IF HasAlb(a)
    THEN Some([containerPort |-> a.albConfig[1].portMapping.containerPort,
               containerName |-> "container",
               targetGroupArn |-> targetGroupName(p)])
    ELSE Undefined

\* albConfig = { containerPort, targetGroupArn: targetGroup.arn, containerName }
albBinding(p, a) ==
    IF HasAlb(a)
    THEN Some([containerPort |-> a.albConfig[1].portMapping.containerPort,
               containerName |-> a.albConfig[1].portMapping.containerName,
               targetGroupArn |-> targetGroupName(p)])
    ELSE Undefined

\* logConfiguration: { logDriver: 'awslogs', options: { 'awslogs-group',
\* 'awslogs-region', 'awslogs-stream-prefix' } } of a container that names a
\* log group, nothing for one that names none
logConfiguration(c, rg, streamPrefix) ==
    IF IsDefined(c.logGroupName)
    THEN Some([logDriver |-> "awslogs",
               options |-> [group |-> c.logGroupName[1], region |-> rg,
                            streamPrefix |-> streamPrefix]])
    ELSE Undefined

ContainerDefinition(c, rg, streamPrefix) ==
    [name |-> c.name, image |-> c.image,
     logConfiguration |-> logConfiguration(c, rg, streamPrefix)]

\* the definitions in the reverse order of the containers
containerDefinitionsReversed(a, rg) ==
    [i \in 1..Len(a.containers) |->
        ContainerDefinition(a.containers[Len(a.containers) + 1 - i], rg,
                            a.containers[Len(a.containers) + 1 - i].name)]

\* the stream prefix of the single-container revision for every container
containerDefinitionsFixedPrefix(a, rg) ==
    [i \in 1..Len(a.containers) |-> ContainerDefinition(a.containers[i], rg, "container")]

\* one definition per container, in the order of the containers
containerDefinitions(a, rg) ==
    [i \in 1..Len(a.containers) |->
        ContainerDefinition(a.containers[i], rg, a.containers[i].name)]

taskDefinitionProps(p, r, rg) ==
    [name |-> taskDefinitionName(p),
     cpu |-> ToString(r.cpu[1]),
     memory |-> ToString(r.memory[1]),
     executionRoleArn |-> executionRoleName(p),
     taskRoleArn |-> taskRoleName(p),
     containerDefinitions |-> containerDefinitions(r, rg)]

\* loadBalancers: albConfig && [albConfig]
serviceProps(p, r) ==
    [name |-> serviceName(p),
     loadBalancers |-> albBinding(p, r),
     taskDefinition |-> taskDefinitionName(p),
     securityGroups |-> <<securityGroupName(p)>>,
     dependsOn |-> serviceDependsOn(p, r)]

computeResources(n, p, a) ==
    { Resource("task-definition-family-id", "random:RandomId", n, {}, {}),
      Resource(taskDefinitionName(p), "aws:ecs:TaskDefinition", n, {},
               {"task-definition-family-id", executionRoleName(p), taskRoleName(p)}),
      Resource(serviceName(p), "aws:ecs:Service", n, serviceDependsOn(p, a),
               {taskDefinitionName(p), securityGroupName(p)}
                   \cup {b.targetGroupArn : b \in Range(albBinding(p, a))}) }

Output(member, resource) == [member |-> member, resource |-> resource]

\* this.executionRole = ..., this.securityGroup = ..., this.service = ...,
\* this.taskDefinition = ..., this.taskRole = ...
componentOutputs(p, a) ==
    { Output("executionRole", executionRoleName(p)),
      Output("securityGroup", securityGroupName(p)),
      Output("service", serviceName(p)),
      Output("taskDefinition", taskDefinitionName(p)),
      Output("taskRole", taskRoleName(p)) }

\* everything the constructor body registers for the resolved arguments r
Registered(n, r) ==
    identityResources(n, r.namespace[1], r) \cup networkResources(n, r.namespace[1], r)
        \cup albResources(n, r.namespace[1], r) \cup computeResources(n, r.namespace[1], r)

-----------------------------------------------------------------------------
(* Inputs *)

Container(n, cpu, memory) ==
    [name |-> n, image |-> "sosedoff/pgweb", cpu |-> cpu, memory |-> memory,
     logGroupName |-> Undefined, secrets |-> <<>>, repositoryCredentials |-> Undefined]

AlbConfig(containerName, rulePriority) ==
    [listenerArn |-> "listener", securityGroupId |-> "sg-alb",
     portMapping |-> [containerName |-> containerName, containerPort |-> 8081],
     rulePriority |-> rulePriority, ruleActions |-> <<>>]

Args(albConfig, containers, cpu, memory, namespace) ==
    [albConfig |-> albConfig, clusterName |-> "cluster", containers |-> containers,
     cpu |-> cpu, memory |-> memory, namespace |-> namespace,
     subnetIds |-> <<"subnet-a", "subnet-b">>, taskPolicy |-> Undefined, vpcId |-> "vpc"]

\* non-empty sequences over S of length at most n
SeqsUpTo(S, n) == UNION {[1..k -> S] : k \in 1..n}

\* sequences over S of length at most n, the empty one included
SeqsFromEmpty(S, n) == {<<>>} \cup SeqsUpTo(S, n)

Secret(n, arn, source, key) == [name |-> n, valueFromArn |-> arn, source |-> source, key |-> key]

ContainerWith(n, logGroup, secrets, credentials) ==
    [name |-> n, image |-> "sosedoff/pgweb", cpu |-> Undefined, memory |-> Undefined,
     logGroupName |-> logGroup, secrets |-> secrets, repositoryCredentials |-> credentials]

AlbConfigWith(containerName, containerPort, securityGroupId, rulePriority, ruleActions) ==
    [listenerArn |-> "listener", securityGroupId |-> securityGroupId,
     portMapping |-> [containerName |-> containerName, containerPort |-> containerPort],
     rulePriority |-> rulePriority, ruleActions |-> ruleActions]

RuleAction(type, issuer) == [type |-> type, authenticateOidc |-> issuer]

WithImage(c, image) == [c EXCEPT !.image = image]

WithVpc(a, vpcId) == [a EXCEPT !.vpcId = vpcId]

WithTaskPolicy(a, taskPolicy) == [a EXCEPT !.taskPolicy = taskPolicy]

\* the names of the containers of a valid spec, by position
PositionalNames == <<"pgweb", "sidecar", "worker", "agent">>

\* sequences of at most n containers drawn from the variants, named by position
NamedContainers(variants, n) ==
    { [i \in 1..Len(f) |-> [f[i] EXCEPT !.name = PositionalNames[i]]] :
        f \in SeqsUpTo(variants, n) }

\* component name, stack and namespace: the prefix is 9, 22 or 23 characters
\* long when the namespace is given and 17, 22 or 23 when it is generated
PrefixInputs ==
    { <<"pgweb-service", "dev", Some("pgweb-dev")>>,
      <<"pgweb-service", "dev", Some("pgweb-production-blue1")>>,
      <<"pgweb-service", "dev", Some("pgweb-production-blue12")>>,
      <<"pgweb-service", "dev", Undefined>>,
      <<"pgweb-service-api", "prod", Undefined>>,
      <<"pgweb-service-api", "stage", Undefined>> }

ContainerInputs ==
    { Container(n, s[1], s[2]) :
        n \in {"pgweb", "sidecar"},
        s \in { <<Undefined, Undefined>>, <<Some(512), Some(1024)>>, <<Some(600), Some(1024)>>,
                <<Some(512), Some(1200)>> } }

AlbInputs ==
    {Undefined}
    \cup { Some(AlbConfig("pgweb", pr)) :
             pr \in {Undefined, Some(0), Some(1), Some(50000), Some(50001)} }
    \cup { Some(AlbConfig("ghost", pr)) : pr \in {Undefined, Some(0)} }

\* the inputs of the validation rules, every rule broken and kept, alone and together
ValidationInputs ==
    { <<pi[1], pi[2], Args(alb, cs, cpu, memory, pi[3])>> :
        pi \in PrefixInputs,
        alb \in AlbInputs,
        cs \in SeqsUpTo(ContainerInputs, MaxContainers),
        cpu \in {Undefined, Some(1024), Some(300)},
        memory \in {Undefined, Some(2048)} }

-----------------------------------------------------------------------------
(* The state machine *)

InitIn(inputs, regions) ==
    /\ \E t \in inputs : name = t[1] /\ stack = t[2] /\ args = t[3]
    /\ region \in regions
    /\ pc = "new"
    /\ errors = <<>>
    /\ resources = {}
    /\ service = Undefined
    /\ taskDefinition = Undefined
    /\ roles = {}
    /\ policies = {}
    /\ securityGroup = Undefined
    /\ securityGroupRules = {}
    /\ outputs = {}
    /\ lb = Undefined
    /\ built = {}
    /\ compiled = <<>>
    /\ created = {}

\* the construction in the region of the project's configuration
InitOver(inputs) == InitIn(inputs, {"ap-southeast-2"})

\* the sections of the constructor body that read the arguments only
Sections == {"identity", "network", "containers"}

\* the constructor body: every `new` of it, for the resolved arguments r
Register(n, r) ==
    /\ resources' = Registered(n, r)
    /\ roles' = iamRoles(r.namespace[1], r)
    /\ policies' = inlinePolicies(r.namespace[1], r)
    /\ securityGroup' = Some(securityGroupProps(r.namespace[1], r))
    /\ securityGroupRules' = groupRules(r.namespace[1], r)
    /\ outputs' = componentOutputs(r.namespace[1], r)
    /\ lb' = albArtifacts(r.namespace[1], r)
    /\ taskDefinition' = Some(taskDefinitionProps(r.namespace[1], r, region))
    /\ service' = Some(serviceProps(r.namespace[1], r))
    /\ built' = Sections
    /\ compiled' = containerDefinitions(r, region)

\* the constructor validating only after it registered the resources
ConstructValidatesLast ==
    /\ pc = "new"
    /\ LET r == WithDefaults(name, stack, args)
           errs == validateArgs(r)
       IN  /\ Register(name, r)
           /\ errors' = errs
           /\ pc' = IF errs # <<>> THEN "error" ELSE "done"
    /\ UNCHANGED <<name, stack, region, args, created>>

\* the constructor storing the resolved values into the caller's object
ConstructAssignsDefaults ==
    /\ pc = "new"
    /\ LET r == WithDefaults(name, stack, args)
           errs == validateArgs(r)
       IN  /\ args' = r
           /\ IF errs # <<>>
              THEN /\ pc' = "error"
                   /\ errors' = errs
                   /\ UNCHANGED graph
              ELSE /\ pc' = "done"
                   /\ Register(name, r)
                   /\ UNCHANGED errors
    /\ UNCHANGED <<name, stack, region, created>>

\* new FargateService(name, args): resolve the defaults, validate, and either
\* throw the aggregate error or register every resource
Construct ==
    /\ pc = "new"
    /\ LET r == WithDefaults(name, stack, args)
           errs == validateArgs(r)
       IN  IF errs # <<>>
           THEN /\ pc' = "error"
                /\ errors' = errs
                /\ UNCHANGED graph
           ELSE /\ pc' = "done"
                /\ Register(name, r)
                /\ UNCHANGED errors
    /\ UNCHANGED <<name, stack, region, args, created>>

\* the provisioning engine creates a registered resource once everything it
\* depends on (dependsOn and the resources whose outputs it reads) exists
Create(res) ==
    /\ pc = "done"
    /\ res \in resources
    /\ res.name \notin created
    /\ (res.dependsOn \cup res.refs) \subseteq created
    /\ created' = created \cup {res.name}
    /\ UNCHANGED <<name, stack, region, args, pc, errors, graph>>

Init == InitOver(ValidationInputs)

Next == Construct

Spec == Init /\ [][Next]_vars

\* the constructor followed by the engine, on inputs with and without the
\* ALB configuration, valid and invalid
EngineInputs ==
    { <<"pgweb-service", "dev", Args(alb, <<Container("pgweb", Undefined, Undefined)>>, cpu, Undefined, Undefined)>> :
        alb \in {Undefined, Some(AlbConfig("pgweb", Undefined)), Some(AlbConfig("pgweb", Some(7)))},
        cpu \in {Undefined, Some(300)} }

InitEngine == InitOver(EngineInputs)

NextEngine ==
    \/ Construct
    \/ \E res \in resources : Create(res)

SpecEngine == InitEngine /\ [][NextEngine]_vars

\* the constructor on every pair of a cpu and a memory value around the table
MaxMemoryGb == 31

TableInputs ==
    { <<"pgweb-service", "dev",
        Args(Undefined, <<Container("pgweb", Undefined, Undefined)>>, cpu, memory, Undefined)>> :
        cpu \in {Undefined} \cup {Some(c) : c \in {128, 256, 300, 512, 1024, 2048, 4096, 8192}},
        memory \in {Undefined} \cup {Some(m) : m \in {512, 1000} \cup {1024 * g : g \in 1..MaxMemoryGb}} }

InitTable == InitOver(TableInputs)

SpecTable == InitTable /\ [][Next]_vars

\* the constructor on every combination of a given and an omitted cpu, memory
\* and namespace
DefaultsInputs ==
    { <<pi[1], pi[2],
        Args(Undefined, <<Container("pgweb", Undefined, Undefined)>>, cpu, memory, pi[3])>> :
        pi \in PrefixInputs,
        cpu \in {Undefined, Some(256), Some(512), Some(1024)},
        memory \in {Undefined, Some(512), Some(1024), Some(2048)} }

InitDefaults == InitOver(DefaultsInputs)

SpecDefaults == InitDefaults /\ [][Next]_vars

\* the constructor on containers with secrets of both sources, several of them
\* naming the same ARN
MaxSecrets == 2

SecretInputs ==
    { Secret("DB_USER", "arn:aws:secretsmanager:secret:db", "secrets-manager", Some("username")),
      Secret("DB_PASS", "arn:aws:secretsmanager:secret:db", "secrets-manager", Some("password")),
      Secret("API_KEY", "arn:aws:secretsmanager:secret:api", "secrets-manager", Undefined),
      Secret("HOST", "arn:aws:ssm:parameter/host", "parameter-store", Undefined),
      Secret("HOSTNAME", "arn:aws:ssm:parameter/host", "parameter-store", Undefined),
      Secret("PORT", "arn:aws:ssm:parameter/port", "parameter-store", Undefined) }

SecretsInputs ==
    { <<"pgweb-service", "dev", Args(Undefined, cs, Undefined, Undefined, Undefined)>> :
        cs \in NamedContainers({ ContainerWith("", Undefined, ss, Undefined) :
                                   ss \in SeqsFromEmpty(SecretInputs, MaxSecrets) },
                               MaxContainers) }

InitSecrets == InitOver(SecretsInputs)

SpecSecrets == InitSecrets /\ [][Next]_vars

\* the constructor on containers with and without a log group, a secret and
\* repository credentials, with and without a task policy
RoleContainerInputs ==
    { ContainerWith("", lg, ss, cred) :
        lg \in {Undefined, Some("app-logs"), Some("audit-logs")},
        ss \in {<<>>, <<Secret("API_KEY", "arn:aws:secretsmanager:secret:api",
                               "secrets-manager", Undefined)>>},
        cred \in {Undefined, Some("arn:aws:secretsmanager:secret:registry"),
                  Some("arn:aws:secretsmanager:secret:mirror")} }

TaskPolicyInputs ==
    { Undefined,
      Some(PolicyDocument(<<"s3:GetObject">>, <<"arn:aws:s3:::bucket/*">>)),
      Some(PolicyDocument(<<"sqs:SendMessage", "sqs:SendMessage">>,
                          <<"arn:aws:sqs:queue", "arn:aws:sqs:queue">>)) }

RolesInputs ==
    { <<"pgweb-service", "dev",
        WithTaskPolicy(Args(Undefined, cs, Undefined, Undefined, Undefined), tp)>> :
        cs \in NamedContainers(RoleContainerInputs, MaxContainers),
        tp \in TaskPolicyInputs }

InitRoles == InitOver(RolesInputs)

SpecRoles == InitRoles /\ [][Next]_vars

\* the constructor with and without a load balancer, over ports, security
\* groups, priorities and lists of rule actions
MaxRuleActions == 2

RuleActionInputs ==
    { RuleAction("authenticate-oidc", Some("https://okta.example/oauth2")),
      RuleAction("authenticate-cognito", Undefined) }

AlbWithInputs ==
    {Undefined}
    \cup { Some(AlbConfigWith(cn, port, sg, pr, ra)) :
             cn \in {"pgweb", "sidecar"},
             port \in {8081, 3000},
             sg \in {"sg-alb", "sg-alb-internal"},
             pr \in {Undefined, Some(7)},
             ra \in SeqsFromEmpty(RuleActionInputs, MaxRuleActions) }

LoadBalancerInputs ==
    { <<"pgweb-service", "dev",
        WithVpc(Args(alb, cs, Undefined, Undefined, Undefined), vpc)>> :
        alb \in AlbWithInputs,
        cs \in NamedContainers({ContainerWith("", Undefined, <<>>, Undefined)}, MaxContainers),
        vpc \in {"vpc-1aa478ffc", "vpc-2bb589ffd"} }

InitAlb == InitOver(LoadBalancerInputs)

SpecAlb == InitAlb /\ [][Next]_vars

\* the constructor on containers of different images, with and without a log
\* group, in two regions
ImageContainerInputs ==
    { WithImage(ContainerWith("", lg, <<>>, Undefined), image) :
        lg \in {Undefined, Some("app-logs"), Some("audit-logs")},
        image \in {"sosedoff/pgweb", "nginx"} }

ContainersInputs ==
    { <<"pgweb-service", "dev", Args(Undefined, cs, Undefined, Undefined, Undefined)>> :
        cs \in NamedContainers(ImageContainerInputs, MaxContainers) }

InitContainers == InitIn(ContainersInputs, {"ap-southeast-2", "us-east-1"})

SpecContainers == InitContainers /\ [][Next]_vars

\* The sections of the constructor body taken one at a time and in any order:
\* the defaults and the validation first, then the roles and policies, the
\* security group and its rules, and the container definitions, and last the
\* load balancer, the task definition, the service and the outputs.
Resolved == WithDefaults(name, stack, args)

Validate ==
    /\ pc = "new"
    /\ IF validateArgs(Resolved) # <<>>
       THEN pc' = "error" /\ errors' = validateArgs(Resolved)
       ELSE pc' = "building" /\ UNCHANGED errors
    /\ UNCHANGED <<name, stack, region, args, graph, created>>

BuildIdentity ==
    /\ pc = "building"
    /\ "identity" \notin built
    /\ roles' = iamRoles(Resolved.namespace[1], Resolved)
    /\ policies' = inlinePolicies(Resolved.namespace[1], Resolved)
    /\ resources' = resources \cup identityResources(name, Resolved.namespace[1], Resolved)
    /\ built' = built \cup {"identity"}
    /\ UNCHANGED <<name, stack, region, args, pc, errors, created, service, taskDefinition,
                   securityGroup, securityGroupRules, lb, outputs, compiled>>

ingressResources(n, p, a) ==
    {res \in albResources(n, p, a) : res.type = "aws:ec2:SecurityGroupRule"}

\* the section giving the group the ingress rule only once the roles exist
BuildNetworkAfterRoles ==
    /\ pc = "building"
    /\ "network" \notin built
    /\ securityGroup' = Some(securityGroupProps(Resolved.namespace[1], Resolved))
    /\ securityGroupRules' = IF roles = {} THEN {egressRule(Resolved.namespace[1])}
                             ELSE groupRules(Resolved.namespace[1], Resolved)
    /\ resources' = resources \cup networkResources(name, Resolved.namespace[1], Resolved)
                        \cup ingressResources(name, Resolved.namespace[1], Resolved)
    /\ built' = built \cup {"network"}
    /\ UNCHANGED <<name, stack, region, args, pc, errors, created, service, taskDefinition,
                   roles, policies, lb, outputs, compiled>>

BuildNetwork ==
    /\ pc = "building"
    /\ "network" \notin built
    /\ securityGroup' = Some(securityGroupProps(Resolved.namespace[1], Resolved))
    /\ securityGroupRules' = groupRules(Resolved.namespace[1], Resolved)
    /\ resources' = resources \cup networkResources(name, Resolved.namespace[1], Resolved)
                        \cup ingressResources(name, Resolved.namespace[1], Resolved)
    /\ built' = built \cup {"network"}
    /\ UNCHANGED <<name, stack, region, args, pc, errors, created, service, taskDefinition,
                   roles, policies, lb, outputs, compiled>>

BuildContainerDefinitions ==
    /\ pc = "building"
    /\ "containers" \notin built
    /\ compiled' = containerDefinitions(Resolved, region)
    /\ built' = built \cup {"containers"}
    /\ UNCHANGED <<name, stack, region, args, pc, errors, created, resources, service,
                   taskDefinition, roles, policies, securityGroup, securityGroupRules,
                   lb, outputs>>

Assemble ==
    /\ pc = "building"
    /\ built = Sections
    /\ lb' = albArtifacts(Resolved.namespace[1], Resolved)
    /\ resources' = resources \cup albResources(name, Resolved.namespace[1], Resolved)
                        \cup computeResources(name, Resolved.namespace[1], Resolved)
    /\ taskDefinition' =
          Some([taskDefinitionProps(Resolved.namespace[1], Resolved, region)
                   EXCEPT !.containerDefinitions = compiled])
    /\ service' = Some(serviceProps(Resolved.namespace[1], Resolved))
    /\ outputs' = componentOutputs(Resolved.namespace[1], Resolved)
    /\ pc' = "done"
    /\ UNCHANGED <<name, stack, region, args, errors, created, roles, policies,
                   securityGroup, securityGroupRules, built, compiled>>

BuilderInputs ==
    { <<"pgweb-service", "dev",
        WithTaskPolicy(Args(alb, cs, Undefined, Undefined, Undefined), tp)>> :
        alb \in {Undefined,
                 Some(AlbConfigWith("pgweb", 8081, "sg-alb", Undefined, <<>>)),
                 Some(AlbConfigWith("sidecar", 3000, "sg-alb", Some(7), <<>>))},
        cs \in NamedContainers(
                 { ContainerWith("", lg, ss, Undefined) :
                     lg \in {Undefined, Some("app-logs")},
                     ss \in {<<>>, <<Secret("API_KEY", "arn:aws:secretsmanager:secret:api",
                                            "secrets-manager", Undefined)>>} },
                 MaxContainers),
        tp \in {Undefined, Some(PolicyDocument(<<"s3:GetObject">>, <<"arn:aws:s3:::bucket/*">>))} }

InitBuilders == InitOver(BuilderInputs)

NextBuilders ==
    Validate \/ BuildIdentity \/ BuildNetwork \/ BuildContainerDefinitions \/ Assemble

SpecBuilders == InitBuilders /\ [][NextBuilders]_vars

-----------------------------------------------------------------------------
(* What the claims say about the arguments of the current state, stated    *)
(* on the caller's arguments themselves.                                   *)

GivenCpu == IF args.cpu = <<>> THEN 256 ELSE args.cpu[1]

GivenMemory == IF args.memory = <<>> THEN 512 ELSE args.memory[1]

GivenNamespace == IF args.namespace = <<>> THEN name \o "-" \o stack ELSE args.namespace[1]

\* the pairs the comments of the table announce: 0.25 vCPU with 0.5, 1 or
\* 2 GB; 0.5 vCPU with 1 to 4 GB; 1 vCPU with 2 to 8 GB; 2 vCPU with 4 to
\* 16 GB; 4 vCPU with 8 to 30 GB, in steps of 1 GB
Between(m, lo, hi) == m % 1024 = 0 /\ lo * 1024 <= m /\ m <= hi * 1024

CanonicalPair(c, m) ==
    \/ c = 256 /\ m \in {512, 1024, 2048}
    \/ c = 512 /\ Between(m, 1, 4)
    \/ c = 1024 /\ Between(m, 2, 8)
    \/ c = 2048 /\ Between(m, 4, 16)
    \/ c = 4096 /\ Between(m, 8, 30)

GivenContainerCpu(i) == IF args.containers[i].cpu = <<>> THEN 0 ELSE args.containers[i].cpu[1]

GivenContainerMemory(i) ==
    IF args.containers[i].memory = <<>> THEN 0 ELSE args.containers[i].memory[1]

RECURSIVE SumUpTo(_, _)
SumUpTo(f, n) == IF n = 0 THEN 0 ELSE SumUpTo(f, n - 1) + f[n]

GivenCpuSum ==
    SumUpTo([i \in 1..Len(args.containers) |-> GivenContainerCpu(i)], Len(args.containers))

GivenMemorySum ==
    SumUpTo([i \in 1..Len(args.containers) |-> GivenContainerMemory(i)], Len(args.containers))

GivenContainerNames == {args.containers[i].name : i \in 1..Len(args.containers)}

DuplicatedNames ==
    {args.containers[i].name : i \in {k \in 1..Len(args.containers) :
        \E j \in 1..Len(args.containers) : j # k /\ args.containers[j].name = args.containers[k].name}}

OnlyIf(b, x) == IF b THEN {x} ELSE {}

BrokenRules ==
    OnlyIf(~CanonicalPair(GivenCpu, GivenMemory), "cpuMemory")
    \cup OnlyIf(GivenCpuSum > GivenCpu, "containerCpu")
    \cup OnlyIf(GivenMemorySum > GivenMemory, "containerMemory")
    \cup OnlyIf(Len(GivenNamespace) > 22, "namespace")
    \cup OnlyIf(/\ args.albConfig # <<>>
                /\ args.albConfig[1].rulePriority # <<>>
                /\ args.albConfig[1].rulePriority[1] \notin 1..50000, "rulePriority")
    \cup OnlyIf(/\ args.albConfig # <<>>
                /\ args.albConfig[1].portMapping.containerName \notin GivenContainerNames,
                "portMapping")
    \cup OnlyIf(DuplicatedNames # {}, "duplicateName")

ReportedRules == {errors[i].rule : i \in 1..Len(errors)}

MessagesOf(rule) == {errors[i] : i \in {k \in 1..Len(errors) : errors[k].rule = rule}}

NothingRegistered ==
    /\ resources = {} /\ service = <<>> /\ taskDefinition = <<>>
    /\ roles = {} /\ policies = {} /\ securityGroupRules = {} /\ lb = <<>>
    /\ securityGroup = <<>> /\ outputs = {}
    /\ built = {} /\ compiled = <<>>
    /\ created = {}

-----------------------------------------------------------------------------
C2_ServiceAfterListenerRule ==
    /\ (service # <<>> /\ args.albConfig # <<>>) =>
          /\ service[1].dependsOn = {GivenNamespace \o "-listener-rule"}
          /\ \E res \in resources :
                res.name = GivenNamespace \o "-service"
                    /\ (GivenNamespace \o "-listener-rule") \in res.dependsOn
          /\ (GivenNamespace \o "-service") \in created
                => (GivenNamespace \o "-listener-rule") \in created
    /\ (service # <<>> /\ args.albConfig = <<>>) =>
          /\ service[1].dependsOn = {}
          /\ \A res \in resources : res.type = "aws:ecs:Service" => res.dependsOn = {}

C2_Witness ==
    /\ args.albConfig # <<>>
    /\ (GivenNamespace \o "-service") \in created
    /\ (GivenNamespace \o "-listener-rule") \in created

GivenSecrets ==
    UNION {{args.containers[i].secrets[j] : j \in 1..Len(args.containers[i].secrets)} :
             i \in 1..Len(args.containers)}

GivenSecretsManagerArns ==
    {x.valueFromArn : x \in {y \in GivenSecrets : y.source = "secrets-manager"}}

GivenParameterStoreArns ==
    {x.valueFromArn : x \in {y \in GivenSecrets : y.source = "parameter-store"}}

PoliciesNamed(n) == {pol \in policies : pol.name = n}

ResourceOf(pol) == pol.policy.Statement[1].Resource

EachOnce(list) == \A i, j \in 1..Len(list) : list[i] = list[j] => i = j

(* C12: the Secrets-Manager statement exists exactly when a secret uses    *)
(* Secrets Manager, and its Resource lists every distinct Secrets-Manager  *)
(* ARN once and no Parameter-Store ARN.                                    *)
C12_SecretsManagerArnsOnce ==
    pc = "done" =>
        /\ PoliciesNamed("secrets-manager-policy") # {} <=> GivenSecretsManagerArns # {}
        /\ Cardinality(PoliciesNamed("secrets-manager-policy")) <= 1
        /\ \A pol \in PoliciesNamed("secrets-manager-policy") :
              /\ Range(ResourceOf(pol)) = GivenSecretsManagerArns
              /\ EachOnce(ResourceOf(pol))
              /\ Range(ResourceOf(pol)) \cap GivenParameterStoreArns = {}

C12_Witness ==
    /\ pc = "done"
    /\ \E x, y \in GivenSecrets :
          /\ x.source = "secrets-manager" /\ y.source = "secrets-manager"
          /\ x.valueFromArn = y.valueFromArn /\ x.key # y.key
    /\ GivenParameterStoreArns # {}
    /\ \E pol \in PoliciesNamed("secrets-manager-policy") :
          ResourceOf(pol) = <<"arn:aws:secretsmanager:secret:db">>

(* C13: the Parameter-Store statement exists exactly when a secret uses    *)
(* ParameterStore, and its Resource lists every distinct Parameter-Store   *)
(* ARN once.                                                               *)
C13_ParameterStoreArnsOnce ==
    pc = "done" =>
        /\ PoliciesNamed("parameter-store-policy") # {} <=> GivenParameterStoreArns # {}
        /\ \A pol \in PoliciesNamed("parameter-store-policy") :
              /\ Range(ResourceOf(pol)) = GivenParameterStoreArns
              /\ EachOnce(ResourceOf(pol))

GivenLogGroups ==
    {args.containers[i].logGroupName[1] :
       i \in {j \in 1..Len(args.containers) : args.containers[j].logGroupName # <<>>}}

GivenRepositoryCredentials ==
    {args.containers[i].repositoryCredentials[1] :
       i \in {j \in 1..Len(args.containers) : args.containers[j].repositoryCredentials # <<>>}}

ExecutionRoles == {r \in roles : r.name = GivenNamespace \o "-execution-role"}

TaskRoles == {r \in roles : r.name = GivenNamespace \o "-task-role"}

PoliciesOf(rs) == {pol \in policies : \E r \in rs : pol.role = r.name}

IngressRules == {r \in securityGroupRules : r.type = "ingress"}

ResourcesOfType(t) == {r \in resources : r.type = t}

(* C15: the security group has an ingress rule exactly when a load         *)
(* balancer is configured; then there is one, for TCP on the container     *)
(* port of the port mapping, from the load balancer's security group and   *)
(* from no CIDR block; without a load balancer there is no ingress rule.   *)
C15_IngressOnlyFromAlb ==
    pc = "done" =>
        /\ IngressRules # {} <=> args.albConfig # <<>>
        /\ args.albConfig # <<>> =>
              /\ Cardinality(IngressRules) = 1
              /\ \A r \in IngressRules :
                    /\ r.protocol = "TCP"
                    /\ r.fromPort = args.albConfig[1].portMapping.containerPort
                    /\ r.toPort = args.albConfig[1].portMapping.containerPort
                    /\ r.sourceSecurityGroupId = <<args.albConfig[1].securityGroupId>>
                    /\ r.cidrBlocks = <<>>
                    /\ r.securityGroupId = GivenNamespace \o "-service-sg"
        /\ Cardinality({r \in ResourcesOfType("aws:ec2:SecurityGroupRule") :
                          r.name = "ingress-from-alb-rule"})
              = Cardinality(IngressRules)

C15_Witness ==
    /\ pc = "done"
    /\ args.albConfig # <<>>
    /\ args.albConfig[1].portMapping.containerPort = 3000
    /\ args.albConfig[1].securityGroupId = "sg-alb-internal"
    /\ \E r \in IngressRules : r.fromPort = 3000

GivenRuleActions == args.albConfig[1].ruleActions

C17_NoAlbNoBinding ==
    (pc = "done" /\ args.albConfig = <<>>) =>
        /\ ResourcesOfType("aws:lb:TargetGroup") = {}
        /\ ResourcesOfType("aws:lb:ListenerRule") = {}
        /\ lb = <<>>
        /\ service # <<>>
        /\ service[1].loadBalancers = <<>>
        /\ service[1].dependsOn = {}

C17_Witness ==
    /\ pc = "done"
    /\ args.albConfig = <<>>
    /\ ResourcesOfType("aws:ecs:Service") # {}
    /\ Len(args.containers) = 2

(* C19: no call, successful or failed, changes the arguments object the    *)
(* caller passed in, the fields that received a default included.          *)
C19_ArgsNeverMutated == [][args' = args]_vars

C19_Witness ==
    /\ pc = "done"
    /\ args.cpu = <<>> /\ args.memory = <<>> /\ args.namespace = <<>>
    /\ taskDefinition # <<>>
    /\ taskDefinition[1].cpu = "256"
    /\ taskDefinition[1].memory = "512"

TrustsTaskLauncher(role) ==
    \E i \in 1..Len(role.assumeRolePolicy.Statement) :
        /\ role.assumeRolePolicy.Statement[i].Effect = "Allow"
        /\ role.assumeRolePolicy.Statement[i].Action = "sts:AssumeRole"
        /\ role.assumeRolePolicy.Statement[i].Principal.Service = "ecs-tasks.amazonaws.com"

(* C20: the task role always exists and has the trust policy of the        *)
(* execution role, which lets the task launcher assume it; it has an       *)
(* inline policy exactly when taskPolicy is given, and the document is the *)
(* given one unchanged.                                                    *)
C20_TaskRoleVerbatimPolicy ==
    pc = "done" =>
        /\ Cardinality(TaskRoles) = 1
        /\ \A t \in TaskRoles :
              /\ TrustsTaskLauncher(t)
              /\ \A e \in ExecutionRoles : t.assumeRolePolicy = e.assumeRolePolicy
        /\ PoliciesOf(TaskRoles) # {} <=> args.taskPolicy # <<>>
        /\ Cardinality(PoliciesOf(TaskRoles)) <= 1
        /\ \A pol \in PoliciesOf(TaskRoles) : pol.policy = args.taskPolicy[1]

C20_Witness ==
    /\ pc = "done"
    /\ args.taskPolicy # <<>>
    /\ ~EachOnce(args.taskPolicy[1].Statement[1].Resource)
    /\ \E pol \in PoliciesOf(TaskRoles) : Len(ResourceOf(pol)) = 2

EgressRules == {r \in securityGroupRules : r.type = "egress"}

(* C22: every graph has one service security group, in the VPC of the      *)
(* arguments, with one egress rule for any protocol, all ports and every   *)
(* destination, with and without a load balancer.                          *)
C22_OneGroupAllowAllEgress ==
    pc = "done" =>
        /\ Cardinality(ResourcesOfType("aws:ec2:SecurityGroup")) = 1
        /\ securityGroup # <<>>
        /\ securityGroup[1].vpcId = args.vpcId
        /\ \A g \in ResourcesOfType("aws:ec2:SecurityGroup") : g.name = securityGroup[1].name
        /\ Cardinality(EgressRules) = 1
        /\ \A r \in EgressRules :
              /\ r.securityGroupId = securityGroup[1].name
              /\ r.protocol = "-1"
              /\ r.fromPort = 0 /\ r.toPort = 0
              /\ r.cidrBlocks = <<"0.0.0.0/0">>
              /\ r.sourceSecurityGroupId = <<>>

C22_Witness ==
    /\ pc = "done"
    /\ args.albConfig # <<>>
    /\ args.vpcId = "vpc-2bb589ffd"
    /\ securityGroup # <<>>
    /\ IngressRules # {} /\ EgressRules # {}

OutputMembers == {o.member : o \in outputs}

(* C23: every successful construction exposes the execution role, the task *)
(* role, the security group and the task definition, and the target group  *)
(* and the listener rule exactly when a load balancer is configured.       *)
C23_OutputsExposed ==
    pc = "done" =>
        /\ {"executionRole", "taskRole", "securityGroup", "taskDefinition"} \subseteq OutputMembers
        /\ "targetGroup" \in OutputMembers <=> args.albConfig # <<>>
        /\ "listenerRule" \in OutputMembers <=> args.albConfig # <<>>

CompiledDefinitions == taskDefinition[1].containerDefinitions

IdentityTypes == {"aws:iam:Role", "aws:iam:RolePolicy", "aws:iam:RolePolicyAttachment"}

NetworkTypes == {"aws:ec2:SecurityGroup", "aws:ec2:SecurityGroupRule"}

ResourcesOfTypes(types) == {r \in resources : r.type \in types}

ReadsOnlyAmong(types) ==
    \A r \in ResourcesOfTypes(types) :
        (r.refs \cup r.dependsOn) \subseteq {x.name : x \in ResourcesOfTypes(types)}

OnceBuilt(section, value, nothing) == IF section \in built THEN value ELSE nothing

ForwardActions ==
    {lb[1].listenerRule.actions[i] :
       i \in {j \in 1..Len(lb[1].listenerRule.actions) :
                lb[1].listenerRule.actions[j].type = "forward"}}

AlbParts ==
    { IngressRules # {},
      ResourcesOfType("aws:lb:TargetGroup") # {},
      ResourcesOfType("aws:lb:ListenerRule") # {},
      lb # <<>>,
      service[1].loadBalancers # <<>>,
      service[1].dependsOn # {},
      \E r \in ResourcesOfType("aws:ecs:Service") : r.dependsOn # {} }

(* C28: the ingress rule from the load balancer, the target group, the     *)
(* listener rule, the service's binding and the service's dependency on    *)
(* the listener rule are all there or all missing; when there, the ingress *)
(* rule, the target group and the binding have the same port and the       *)
(* forward action and the binding name the same target group.              *)
C28_AlbAllOrNothing ==
    pc = "done" =>
        /\ Cardinality(AlbParts) = 1
        /\ lb # <<>> =>
              /\ \A r \in IngressRules :
                    /\ r.fromPort = lb[1].targetGroup.port
                    /\ r.toPort = lb[1].targetGroup.port
              /\ service[1].loadBalancers[1].containerPort = lb[1].targetGroup.port
              /\ ForwardActions # {}
              /\ \A f \in ForwardActions : f.targetGroupArn = <<lb[1].targetGroup.name>>
              /\ service[1].loadBalancers[1].targetGroupArn = lb[1].targetGroup.name
              /\ service[1].dependsOn = {lb[1].listenerRule.name}

C28_Witness ==
    /\ pc = "done"
    /\ args.albConfig # <<>>
    /\ args.albConfig[1].portMapping.containerPort = 3000
    /\ lb # <<>>
    /\ service[1].loadBalancers[1].containerPort = 3000
    /\ \E r \in IngressRules : r.fromPort = 3000

OtherNamespaces == {"billing", "pgweb-dev-2"}

NamesOf(rs) == {r.name : r \in rs}

GraphOfNamespace(ns) == Registered(name, [Resolved EXCEPT !.namespace = Some(ns)])

(* C29: the logical names of one graph are pairwise distinct, and the      *)
(* graphs of two different namespaces have no logical name in common.      *)
C29_NamesNeverCollide ==
    pc = "done" =>
        /\ Cardinality(NamesOf(resources)) = Cardinality(resources)
        /\ \A ns \in OtherNamespaces \ {GivenNamespace} :
              NamesOf(resources) \cap NamesOf(GraphOfNamespace(ns)) = {}

====
